---------------------------- MODULE Spec2Model ----------------------------
(***************************************************************************)
(* A model of FooCoCo's event managers (src/foococo.py): MultiState,        *)
(* Expression and Press, as state machines driven by the signal engine.     *)
(*                                                                          *)
(* Sensor values are floats in [0, 1] in the program; here a value is a     *)
(* level v in 0..MaxLevel standing for v / MaxLevel.  A threshold crossing  *)
(* detector (pyo.Thresh) keeps a "ready" flag and is evaluated once per     *)
(* engine pass, when the sources take their new values; a stopped pyo       *)
(* object is not evaluated.  One engine pass is one Sample action.          *)
(*                                                                          *)
(* Each manager has its own specification (SpecMS, SpecExpr, SpecPress,    *)
(* SpecPressure); the variables of the other managers stay at their idle   *)
(* values.  The value sources (SpecSources), the LED and display callbacks  *)
(* (SpecLeds, SpecDisplay), the initialization (SpecInit) and the firing of *)
(* callback lists (SpecDispatch) are specified the same way.  A text is the *)
(* sequence of its characters.                                              *)
(***************************************************************************)
EXTENDS Integers, Sequences, FiniteSets, TLC

VARIABLES
    op,           \* the operation performed by the last step
    raised,       \* TRUE when the last operation raised a Python exception
    \* ---- MultiState (src/foococo.py:237-312)
    msPhase,      \* "new" before __init__, "live" after it, "failed" when it raised
    msLength,     \* self.length
    msInit,       \* the init argument: <<>> for None, <<i>> for the integer i
    msState,      \* self.state: <<>> for None, <<i>> for the integer i
    msHasPrev,    \* self.prev after construction (True / False)
    msNextVal,    \* level of the next button
    msPrevVal,    \* level of the prev button
    msTrig,       \* self.trig:      [active, ready]
    msTrigF,      \* self.trig_f:    active
    msPrevTrig,   \* self.prev_trig: [active, ready]
    msPrevTrigF,  \* self.prev_trig_f: active
    msCalls,      \* indices of the states executed by the last step, in order
    nNext,        \* number of times the next trigger invoked self.next
    nPrev,        \* number of times the prev trigger invoked self.prev
    msStopped,    \* TRUE from stop() to the following play()
    msResumed,    \* TRUE once a play() has followed a stop()
    \* ---- Expression (src/foococo.py:349-418)
    exPhase,      \* "new" before __init__, "live" after it
    exInit,       \* the init argument, in accumulator units
    exCurve,      \* the exponent used by update()
    exNCb,        \* number of functions in callback (1 for a single function)
    exValue,      \* self.value, in accumulator units
    exUp,         \* level of the up source
    exDown,       \* level of the down source
    exMetro,      \* self.metro is playing
    exTrigStart,  \* self.trig_start: [active, ready]
    exTrigStop,   \* self.trig_stop:  [active, ready]
    exTrigStartF, \* self.trig_start_f: active
    exTrigStopF,  \* self.trig_stop_f:  active
    exCalls,      \* <<callback index, argument>> of the calls made by the last step
    exStopped,    \* TRUE from stop() to the following play()
    \* ---- Press (src/foococo.py:179-234)
    prPhase,      \* "new" before __init__, "live" after it
    prDir,        \* Press.dir2num[dir]
    prNCb,        \* functions in callback: 0 for None or an empty list
    prVal,        \* level of the source
    prTrig,       \* self.trig: [active, ready]
    prHasTrigF,   \* the attribute self.trig_f exists
    prTrigF,      \* self.trig_f: active
    prCalls,      \* indices of the callback functions called by the last step
    prStopped,    \* TRUE from stop() to the following play()
    prEverStopped, \* TRUE once stop() has been called
    \* ---- Pressure (src/foococo.py:316-345)
    pzPhase,      \* "new" before the constructor ran, then "live"
    pzNCb,        \* number of functions in the callback list
    pzVal,        \* current level of the source
    pzLast,       \* the value pyo.Change compared the last sample with
    pzTrig,       \* self.trig (pyo.Change) is playing
    pzTrigF,      \* self.trig_f (pyo.TrigFunc) is playing
    pzCalls,      \* <<i, n>>: callback i called with n, by the last step
    pzStopped,    \* TRUE from stop() to the following play()
    \* ---- value sources (src/foococo.py:49-172)
    rgModel,      \* 1 or 2: which _corner2offset table is in force
    rgStreams,    \* _midi_streams: cc number -> Midictl object <<cc, serial>>
    rgMade,       \* cc number -> how many Midictl objects were created for it
    rgCall,       \* the last button() / extension_pedal() call and its arguments
    rgResult,     \* what that call returned
    rgFailed,     \* TRUE once a call raised
    rgIn,         \* levels of the constituent sensors at the last reading
    rgOut,        \* value of the returned object at the last reading
    \* ---- LED callbacks (src/foococo.py:502-524, src/hardware.py:117-135)
    ldOut,        \* controller number -> mode last sent with ctlout
    ldOn,         \* the last led_on callback: its arguments and the LED it set
    ldOff,        \* the last led_off callback: its argument and the LEDs it set
    \* ---- display callback (src/foococo.py:527-548, src/hardware.py:138-147)
    dpLabel,      \* the text display() was created with
    dpArg,        \* the argument of the last call of the callback, None without
    dpText,       \* the text the callback handed to hardware.display
    dpSent,       \* <<ctl, code>>: the ctlout calls of hardware.display, in order
    \* ---- initialization (src/hardware.py:45-96, src/foococo.py:556-575)
    hwInputs,     \* names of the MIDI input devices, in list order
    hwOutputs,    \* names of the MIDI output devices, in list order
    hwIndex,      \* the device_index argument of init
    hwIn,         \* the device given to server.setMidiInputDevice, None if none
    hwOut,        \* the device given to server.setMidiOutputDevice, None if none
    hwBooted,     \* server.boot() was called
    hwStarted,    \* server.start() was called
    hwMsgs,       \* messages sent to the device: sysex, display and led counts
    hwResult,     \* "none" before init, then "ok" or "raised"
    \* ---- one firing of a callback list (src/foococo.py:95-104, 322-327, 374-379)
    cbKind,       \* the class of the manager that fires
    cbActions,    \* the list of actions: TRUE for an action that raises
    cbArg,        \* the value the manager holds when it fires, None if none
    cbRan,        \* the actions called by the firing, in order
    \* ---- Press managers on one source (src/foococo.py:179-234)
    shVal,        \* current level of the shared source
    shSource,     \* the shared source object: whether it is playing
    shMgr,        \* manager -> its attributes, as for a single Press
    shActor       \* the manager the last step was called on, 0 for an engine pass

msVars == <<msPhase, msLength, msInit, msState, msHasPrev, msNextVal, msPrevVal,
            msTrig, msTrigF, msPrevTrig, msPrevTrigF, msCalls, nNext, nPrev,
            msStopped, msResumed>>

exVars == <<exPhase, exInit, exCurve, exNCb, exValue, exUp, exDown, exMetro,
            exTrigStart, exTrigStop, exTrigStartF, exTrigStopF, exCalls, exStopped>>

prVars == <<prPhase, prDir, prNCb, prVal, prTrig, prHasTrigF, prTrigF, prCalls,
            prStopped, prEverStopped>>

pzVars == <<pzPhase, pzNCb, pzVal, pzLast, pzTrig, pzTrigF, pzCalls, pzStopped>>
rgVars == <<rgModel, rgStreams, rgMade, rgCall, rgResult, rgFailed, rgIn, rgOut>>
ldVars == <<ldOut, ldOn, ldOff>>
dpVars == <<dpLabel, dpArg, dpText, dpSent>>
hwVars == <<hwInputs, hwOutputs, hwIndex, hwIn, hwOut, hwBooted, hwStarted, hwMsgs,
            hwResult>>
cbVars == <<cbKind, cbActions, cbArg, cbRan>>
shVars == <<shVal, shSource, shMgr, shActor>>
vars == <<op, raised, msVars, exVars, prVars, pzVars, rgVars, ldVars, dpVars, hwVars,
          cbVars, shVars>>

\* what the operations of one manager leave alone
notMS == <<exVars, prVars, pzVars, rgVars, ldVars, dpVars, hwVars, cbVars, shVars>>
notEx == <<msVars, prVars, pzVars, rgVars, ldVars, dpVars, hwVars, cbVars, shVars>>
notPr == <<msVars, exVars, pzVars, rgVars, ldVars, dpVars, hwVars, cbVars, shVars>>
notPz == <<msVars, exVars, prVars, rgVars, ldVars, dpVars, hwVars, cbVars, shVars>>
notRg == <<msVars, exVars, prVars, pzVars, ldVars, dpVars, hwVars, cbVars, shVars>>
notLd == <<msVars, exVars, prVars, pzVars, rgVars, dpVars, hwVars, cbVars, shVars>>
notDp == <<msVars, exVars, prVars, pzVars, rgVars, ldVars, hwVars, cbVars, shVars>>
notHw == <<msVars, exVars, prVars, pzVars, ldVars, dpVars, cbVars, shVars>>
notCb == <<msVars, exVars, prVars, pzVars, rgVars, ldVars, dpVars, hwVars, shVars>>
notSh == <<msVars, exVars, prVars, pzVars, rgVars, ldVars, dpVars, hwVars, cbVars>>
rgRest == <<rgStreams, rgMade, rgCall, rgResult, rgFailed, rgIn, rgOut>>

-----------------------------------------------------------------------------
(* Bounds of the model *)

\* sensor levels are 0..MaxLevel
MaxLevel == 2

\* LEDs lit at the same time
MaxLit == 2

\* longest label given to display()
MaxLabel == 5

\* longest list of MIDI devices
MaxDevices == 3

\* longest list of actions fired with actions that may raise
MaxActions == 3
\* a MultiState has at most MaxLength states
MaxLength == 3
\* at most MaxCross invocations of each trigger callback are followed
MaxCross == 3
\* explicit curve arguments are 1..MaxCurveArg
MaxCurveArg == 3
\* a callback list has at most MaxCallbacks functions
MaxCallbacks == 2

(* Program constants *)

\* DEFAULT_THRESHOLD = .03, as the fraction DEFAULT_THRESHOLD_NUM / THRESHOLD_DEN
DEFAULT_THRESHOLD_NUM == 3
THRESHOLD_DEN == 100
\* DEFAULT_CURVE = 2 (SoftStep 1)
DEFAULT_CURVE == 2
\* the factor of int(self.value*100)
PERCENT == 100

Levels == 0..MaxLevel

\* Python's None and an integer, as values of one variable
None == <<>>
Some(i) == <<i>>
IsNone(x) == x = <<>>
Val(x) == x[1]

-----------------------------------------------------------------------------
(* pyo.Thresh: a level v is above the threshold when v / MaxLevel > .03 *)

Above(v) == THRESHOLD_DEN * v > DEFAULT_THRESHOLD_NUM * MaxLevel
Below(v) == THRESHOLD_DEN * v < DEFAULT_THRESHOLD_NUM * MaxLevel

dirDown == 0
dirUp == 1
dirBoth == 2

\* whether a Thresh of direction dir, with ready flag `ready`, sends a trigger on level v
ThreshFires(dir, ready, v) ==
    CASE dir = dirDown -> ready /\ Above(v)
      [] dir = dirUp   -> ready /\ Below(v)
      [] OTHER         -> (ready /\ Above(v)) \/ (~ready /\ ~Above(v))

\* the ready flag after the Thresh has seen level v
ThreshReady(dir, ready, v) ==
    CASE dir = dirDown -> IF ready /\ Above(v) THEN FALSE
                          ELSE IF ~ready /\ ~Above(v) THEN TRUE ELSE ready
      [] dir = dirUp   -> IF ready /\ Below(v) THEN FALSE
                          ELSE IF ~ready /\ ~Below(v) THEN TRUE ELSE ready
      [] OTHER         -> IF ready /\ Above(v) THEN FALSE
                          ELSE IF ~ready /\ ~Above(v) THEN TRUE ELSE ready

\* a freshly created Thresh plays at once; a missing one is never evaluated
NewThresh == [active |-> TRUE, ready |-> TRUE]
NoThresh == [active |-> FALSE, ready |-> TRUE]

\* one engine pass over a Thresh: its state afterwards
ThreshPass(t, dir, v) ==
    IF t.active THEN [t EXCEPT !.ready = ThreshReady(dir, t.ready, v)] ELSE t

\* whether an engine pass over Thresh t makes TrigFunc f call its function
Triggers(t, f, dir, v) == t.active /\ f /\ ThreshFires(dir, t.ready, v)

-----------------------------------------------------------------------------
(* Expression *)

RECURSIVE Pow(_, _)
Pow(b, e) == IF e = 0 THEN 1 ELSE b * Pow(b, e - 1)

Max(a, b) == IF a >= b THEN a ELSE b

\* curve = DEFAULT_CURVE*2+1 when the argument is None
DefaultCurve == DEFAULT_CURVE * 2 + 1

\* The accumulator is a float; here it is an integer number of units of
\* 1 / MaxLevel^UnitExp, in which every power (d / MaxLevel)^curve is exact.
UnitExp == Max(DefaultCurve, MaxCurveArg)
Unit == Pow(MaxLevel, UnitExp)

\* a power that forgets the sign of the difference
DiffPowAbs(up, down, curve) ==
    Pow(IF up >= down THEN up - down ELSE down - up, curve) * Pow(MaxLevel, UnitExp - curve)

\* diff = up.get() - down.get(); diff = (diff)**curve, in accumulator units
DiffPow(up, down, curve) == Pow(up - down, curve) * Pow(MaxLevel, UnitExp - curve)

\* a clamp that forgets the upper bound
ClampLow(v) == IF v < 0 THEN 0 ELSE v

\* if self.value > 1: self.value = 1  elif self.value < 0: self.value = 0
Clamp(v) == IF v > Unit THEN Unit ELSE IF v < 0 THEN 0 ELSE v

\* int(self.value*100): truncation toward zero
Scaled(v) == IF v >= 0 THEN (v * PERCENT) \div Unit ELSE -(((-v) * PERCENT) \div Unit)

\* a notification that stops after the first callback
ChangedFirstOnly(v, n) == <<<<1, Scaled(v)>>>>

\* changed(): every function of callback, in list order, with int(self.value*100)
Changed(v, n) == [i \in 1..n |-> <<i, Scaled(v)>>]

\* the constructor arguments that are tried: each argument varied with the
\* others at their defaults (init=0, curve=None, a single callback)
ExInitArgs == {-Unit, 0, Unit \div 2, Unit, 2 * Unit}
ExCurveArgs == {None} \cup {Some(c) : c \in 1..MaxCurveArg}
ExConfigs ==
    {[init |-> i, curve |-> None, ncb |-> 1] : i \in ExInitArgs}
    \cup {[init |-> 0, curve |-> c, ncb |-> 1] : c \in ExCurveArgs}
    \cup {[init |-> 0, curve |-> None, ncb |-> n] : n \in 1..MaxCallbacks}

ExIdle ==
    /\ exPhase = "new" /\ exInit = 0 /\ exCurve = DefaultCurve /\ exNCb = 1
    /\ exValue = 0 /\ exUp = 0 /\ exDown = 0 /\ exMetro = FALSE
    /\ exTrigStart = NoThresh /\ exTrigStop = NoThresh
    /\ exTrigStartF = FALSE /\ exTrigStopF = FALSE
    /\ exCalls = <<>> /\ exStopped = FALSE

\* Expression.__init__(up, down, callback, init, curve): the Metro is created
\* stopped, the two Thresh and their TrigFunc playing
ExConstruct(init, curve, ncb) ==
    /\ exPhase = "new"
    /\ exPhase' = "live"
    /\ exInit' = init
    /\ exCurve' = IF IsNone(curve) THEN DefaultCurve ELSE Val(curve)
    /\ exNCb' = ncb
    /\ exValue' = init
    /\ exMetro' = FALSE
    /\ exTrigStart' = NewThresh /\ exTrigStop' = NewThresh
    /\ exTrigStartF' = TRUE /\ exTrigStopF' = TRUE
    /\ exCalls' = <<>>
    /\ raised' = FALSE
    /\ op' = "construct"
    /\ UNCHANGED notEx
    /\ UNCHANGED <<exUp, exDown, exStopped>>

\* One engine pass: the sources take the levels u and d; trig_start (dir=0)
\* and trig_stop (dir=1) see up+down, and their TrigFunc call metro.play and
\* metro.stop.
ExSample(u, d) ==
    /\ exPhase = "live"
    /\ LET start == Triggers(exTrigStart, exTrigStartF, dirDown, u + d)
           stop == Triggers(exTrigStop, exTrigStopF, dirUp, u + d)
       IN  exMetro' = IF stop THEN FALSE ELSE IF start THEN TRUE ELSE exMetro
    /\ exUp' = u /\ exDown' = d
    /\ exTrigStart' = ThreshPass(exTrigStart, dirDown, u + d)
    /\ exTrigStop' = ThreshPass(exTrigStop, dirUp, u + d)
    /\ exCalls' = <<>>
    /\ raised' = FALSE
    /\ op' = "sample"
    /\ UNCHANGED notEx
    /\ UNCHANGED <<exPhase, exInit, exCurve, exNCb, exValue, exTrigStartF, exTrigStopF,
                   exStopped>>

\* self.value after update()
Update(v, up, down, curve) == Clamp(v + DiffPow(up, down, curve))

\* One period of self.metro: metro_f calls update()
ExTick ==
    /\ exPhase = "live"
    /\ exMetro
    /\ exValue' = Update(exValue, exUp, exDown, exCurve)
    /\ exCalls' = Changed(exValue', exNCb)
    /\ raised' = FALSE
    /\ op' = "tick"
    /\ UNCHANGED notEx
    /\ UNCHANGED <<exPhase, exInit, exCurve, exNCb, exUp, exDown, exMetro,
                   exTrigStart, exTrigStop, exTrigStartF, exTrigStopF, exStopped>>

\* Expression.stop: trig_start, trig_stop, trig_start_f, trig_stop_f
ExStop ==
    /\ exPhase = "live"
    /\ exTrigStart' = [exTrigStart EXCEPT !.active = FALSE]
    /\ exTrigStop' = [exTrigStop EXCEPT !.active = FALSE]
    /\ exTrigStartF' = FALSE /\ exTrigStopF' = FALSE
    /\ exStopped' = TRUE
    /\ exCalls' = <<>>
    /\ raised' = FALSE
    /\ op' = "stop"
    /\ UNCHANGED notEx
    /\ UNCHANGED <<exPhase, exInit, exCurve, exNCb, exValue, exUp, exDown, exMetro>>

\* Expression.play
ExPlay ==
    /\ exPhase = "live"
    /\ exTrigStart' = [exTrigStart EXCEPT !.active = TRUE]
    /\ exTrigStop' = [exTrigStop EXCEPT !.active = TRUE]
    /\ exTrigStartF' = TRUE /\ exTrigStopF' = TRUE
    /\ exStopped' = FALSE
    /\ exCalls' = <<>>
    /\ raised' = FALSE
    /\ op' = "play"
    /\ UNCHANGED notEx
    /\ UNCHANGED <<exPhase, exInit, exCurve, exNCb, exValue, exUp, exDown, exMetro>>


-----------------------------------------------------------------------------
(* MultiState *)

\* a remainder that takes the sign of the dividend, as C's % does
TruncMod(a, b) == IF a < 0 THEN -((-a) % b) ELSE a % b

\* Python's % for a positive divisor
PyMod(a, b) == a % b

\* an advance that forgets the modulo
NextIndexNoWrap(s, L) == s + 1

\* a retreat that stops at the first state instead of wrapping
PrevIndexNoWrap(s, L) == IF s = 0 THEN 0 ELSE PyMod(s - 1, L)

\* self.state after MultiState.next / MultiState.prev from the integer state s
NextIndex(s, L) == PyMod(s + 1, L)
PrevIndex(s, L) == PyMod(s - 1, L)

\* MultiState.next on state st: the outcome [state, calls, raised].
\* None + 1 is a TypeError and a modulo by zero a ZeroDivisionError; both
\* leave self.state as it was.
CallNext(st, L) ==
    IF IsNone(st) \/ L = 0
    THEN [state |-> st, calls |-> <<>>, raised |-> TRUE]
    ELSE [state |-> Some(NextIndex(Val(st), L)),
          calls |-> <<NextIndex(Val(st), L)>>, raised |-> FALSE]

CallPrev(st, L) ==
    IF IsNone(st) \/ L = 0
    THEN [state |-> st, calls |-> <<>>, raised |-> TRUE]
    ELSE [state |-> Some(PrevIndex(Val(st), L)),
          calls |-> <<PrevIndex(Val(st), L)>>, raised |-> FALSE]

NoCall(st) == [state |-> st, calls |-> <<>>, raised |-> FALSE]

\* a constructor that starts from init itself
BeforeInitNoOffset(init) == Some(Val(init))

\* self.state = init-1, the state __init__ calls self.next() from
BeforeInit(init) == Some(Val(init) - 1)

\* a play() that executes the current state again
PlayRefires(st, L) ==
    IF IsNone(st) THEN CallNext(Some(-1), L)
    ELSE [state |-> st, calls |-> <<Val(st)>>, raised |-> FALSE]

\* the end of MultiState.play: a state left unset by init=None is started now
PlayFirst(st, L) == IF IsNone(st) THEN CallNext(Some(-1), L) ELSE NoCall(st)

\* the values of the init argument that are tried
InitArgs == {None} \cup {Some(i) : i \in -1..MaxLength}

MSIdle ==
    /\ msPhase = "new" /\ msLength = 0 /\ msInit = None /\ msState = None
    /\ msHasPrev = FALSE /\ msNextVal = 0 /\ msPrevVal = 0
    /\ msTrig = NoThresh /\ msTrigF = FALSE
    /\ msPrevTrig = NoThresh /\ msPrevTrigF = FALSE
    /\ msCalls = <<>> /\ nNext = 0 /\ nPrev = 0
    /\ msStopped = FALSE /\ msResumed = FALSE

\* MultiState.__init__(next, states, prev, threshold, init)
MSConstruct(L, init, hasPrev) ==
    /\ msPhase = "new"
    /\ LET first == IF IsNone(init) THEN NoCall(None)
                    ELSE CallNext(BeforeInit(init), L)
       IN
       /\ msLength' = L
       /\ msInit' = init
       /\ msCalls' = first.calls
       /\ raised' = first.raised
       /\ IF first.raised
          THEN \* self.next() raised inside __init__: no object is returned
               /\ msPhase' = "failed"
               /\ msState' = BeforeInit(init)
               /\ UNCHANGED <<msHasPrev, msTrig, msTrigF, msPrevTrig, msPrevTrigF>>
          ELSE /\ msPhase' = "live"
               /\ msState' = first.state
               /\ msHasPrev' = hasPrev
               /\ msTrig' = NewThresh
               /\ msTrigF' = TRUE
               /\ msPrevTrig' = IF hasPrev THEN NewThresh ELSE NoThresh
               /\ msPrevTrigF' = hasPrev
    /\ op' = "construct"
    /\ UNCHANGED notMS
    /\ UNCHANGED <<msNextVal, msPrevVal, nNext, nPrev, msStopped, msResumed>>

\* One engine pass: the buttons take the levels nv and pv, then the objects
\* are processed in creation order (trig, trig_f, prev_trig, prev_trig_f).
MSSample(nv, pv) ==
    /\ msPhase = "live"
    /\ nNext < MaxCross /\ nPrev < MaxCross
    /\ msHasPrev \/ pv = 0
    /\ LET fireN == Triggers(msTrig, msTrigF, dirDown, nv)
           r1 == IF fireN THEN CallNext(msState, msLength) ELSE NoCall(msState)
           fireP == Triggers(msPrevTrig, msPrevTrigF, dirDown, pv)
           r2 == IF fireP THEN CallPrev(r1.state, msLength) ELSE NoCall(r1.state)
       IN
       /\ msNextVal' = nv
       /\ msPrevVal' = pv
       /\ msTrig' = ThreshPass(msTrig, dirDown, nv)
       /\ msPrevTrig' = ThreshPass(msPrevTrig, dirDown, pv)
       /\ msState' = r2.state
       /\ msCalls' = r1.calls \o r2.calls
       /\ raised' = (r1.raised \/ r2.raised)
       /\ nNext' = IF fireN THEN nNext + 1 ELSE nNext
       /\ nPrev' = IF fireP THEN nPrev + 1 ELSE nPrev
    /\ op' = "sample"
    /\ UNCHANGED notMS
    /\ UNCHANGED <<msPhase, msLength, msInit, msHasPrev, msTrigF, msPrevTrigF,
                   msStopped, msResumed>>

\* MultiState.stop
MSStop ==
    /\ msPhase = "live"
    /\ msTrig' = [msTrig EXCEPT !.active = FALSE]
    /\ msTrigF' = FALSE
    /\ msPrevTrig' = IF msHasPrev THEN [msPrevTrig EXCEPT !.active = FALSE] ELSE msPrevTrig
    /\ msPrevTrigF' = FALSE
    /\ msCalls' = <<>>
    /\ raised' = FALSE
    /\ msStopped' = TRUE
    /\ op' = "stop"
    /\ UNCHANGED notMS
    /\ UNCHANGED <<msPhase, msLength, msInit, msState, msHasPrev, msNextVal, msPrevVal,
                   nNext, nPrev, msResumed>>

\* MultiState.play
MSPlay ==
    /\ msPhase = "live"
    /\ msTrig' = [msTrig EXCEPT !.active = TRUE]
    /\ msTrigF' = TRUE
    /\ msPrevTrig' = IF msHasPrev THEN [msPrevTrig EXCEPT !.active = TRUE] ELSE msPrevTrig
    /\ msPrevTrigF' = msHasPrev
    /\ LET first == PlayFirst(msState, msLength)
       IN
       /\ msState' = first.state
       /\ msCalls' = first.calls
       /\ raised' = first.raised
    /\ msStopped' = FALSE
    /\ msResumed' = (msResumed \/ msStopped)
    /\ op' = "play"
    /\ UNCHANGED notMS
    /\ UNCHANGED <<msPhase, msLength, msInit, msHasPrev, msNextVal, msPrevVal,
                   nNext, nPrev>>

-----------------------------------------------------------------------------
(* Press and Release *)

PrIdle ==
    /\ prPhase = "new" /\ prDir = dirDown /\ prNCb = 0 /\ prVal = 0
    /\ prTrig = NoThresh /\ prHasTrigF = FALSE /\ prTrigF = FALSE
    /\ prCalls = <<>> /\ prStopped = FALSE /\ prEverStopped = FALSE

\* _single_callback_or_list(cb): the functions run by one firing, in order
SingleCallbackOrList(n) == [i \in 1..n |-> i]

\* Press.__init__(source, callback, threshold, dir): trig_f is created only
\* when callback is truthy
PrConstruct(dir, ncb) ==
    /\ prPhase = "new"
    /\ prPhase' = "live"
    /\ prDir' = dir
    /\ prNCb' = ncb
    /\ prTrig' = NewThresh
    /\ prHasTrigF' = (ncb > 0)
    /\ prTrigF' = (ncb > 0)
    /\ prCalls' = <<>>
    /\ raised' = FALSE
    /\ op' = "construct"
    /\ UNCHANGED notPr
    /\ UNCHANGED <<prVal, prStopped, prEverStopped>>

\* One engine pass: the source takes level v; trig, then trig_f
PrSample(v) ==
    /\ prPhase = "live"
    /\ prVal' = v
    /\ prTrig' = ThreshPass(prTrig, prDir, v)
    /\ prCalls' = IF Triggers(prTrig, prTrigF, prDir, v)
                  THEN SingleCallbackOrList(prNCb) ELSE <<>>
    /\ raised' = FALSE
    /\ op' = "sample"
    /\ UNCHANGED notPr
    /\ UNCHANGED <<prPhase, prDir, prNCb, prHasTrigF, prTrigF, prStopped, prEverStopped>>

\* Press.stop: self.trig.stop(), then self.trig_f.stop(), an AttributeError
\* when the attribute is missing
PrStop ==
    /\ prPhase = "live"
    /\ prTrig' = [prTrig EXCEPT !.active = FALSE]
    /\ prTrigF' = FALSE
    /\ raised' = ~prHasTrigF
    /\ prStopped' = TRUE
    /\ prEverStopped' = TRUE
    /\ prCalls' = <<>>
    /\ op' = "stop"
    /\ UNCHANGED notPr
    /\ UNCHANGED <<prPhase, prDir, prNCb, prVal, prHasTrigF>>

\* Press.play: self.trig.play(), then self.trig_f.play()
PrPlay ==
    /\ prPhase = "live"
    /\ prTrig' = [prTrig EXCEPT !.active = TRUE]
    /\ prTrigF' = prHasTrigF
    /\ raised' = ~prHasTrigF
    /\ prStopped' = FALSE
    /\ prCalls' = <<>>
    /\ op' = "play"
    /\ UNCHANGED notPr
    /\ UNCHANGED <<prPhase, prDir, prNCb, prVal, prHasTrigF, prEverStopped>>

-----------------------------------------------------------------------------
(* Value sources: button(), extension_pedal() and the _midi_streams cache *)

\* _button2CC, numbered buttons and nav pad
Button2CC ==
    (1 :> 44) @@ (2 :> 52) @@ (3 :> 60) @@ (4 :> 68) @@ (5 :> 76) @@
    (6 :> 40) @@ (7 :> 48) @@ (8 :> 56) @@ (9 :> 64) @@ (0 :> 72)
Nav2CC ==
    ("nav_left" :> 80) @@ ("nav_right" :> 81) @@ ("nav_up" :> 82) @@ ("nav_down" :> 83)

\* a corner tag is the sequence of its letters
Corner2OffsetSS1 ==
    (<<"t", "l">> :> 0) @@ (<<"t", "r">> :> 1) @@ (<<"b", "l">> :> 2) @@ (<<"b", "r">> :> 3)
Corner2OffsetSS2 ==
    (<<"t">> :> 0) @@ (<<"r">> :> 1) @@ (<<"l">> :> 2) @@ (<<"b">> :> 3)
Corner2Offset(model) == IF model = 2 THEN Corner2OffsetSS2 ELSE Corner2OffsetSS1

\* ['t', 'l', 'b', 'r']
GenericCorners == {<<"t">>, <<"l">>, <<"b">>, <<"r">>}

\* cc number of the extension pedal
PedalCC == 86

\* number of sensors under a numbered button: range(4)
NSensors == 4

\* the arguments that are tried
RgButtons == {1, 11}
RgNavs == {"nav_left", "nav_x"}
RgCorners ==
    GenericCorners \cup DOMAIN Corner2OffsetSS1 \cup {<<"x">>, <<"l", "t">>, <<>>}

\* a test that looks at the first letter of the key only
CornerInFirst(corner, k) == Len(k) >= 1 /\ k[1] = corner[1]

\* `corner in k` for a one-letter corner and a key k
CornerIn(corner, k) == \E i \in 1..Len(k) : k[i] = corner[1]

\* the elements of a set of integers in increasing order
RECURSIVE Ascending(_)
Ascending(S) ==
    IF S = {} THEN <<>>
    ELSE LET m == CHOOSE x \in S : \A y \in S : x <= y
         IN <<m>> \o Ascending(S \ {m})

\* the KeyError swallowed: the call returns without a source
RgNoRaise == [raises |-> FALSE, clip |-> FALSE, ccs |-> <<>>]

\* the KeyError leaves button(): no _midi_stream call was made
RgRaise == [raises |-> TRUE, clip |-> FALSE, ccs |-> <<>>]

\* button(base, corner) for a numbered base: the cc numbers it resolves, in
\* the order _midi_stream is called, and whether they are summed and clipped
ButtonPlan(model, base, hasCorner, corner) ==
    LET c2o == Corner2Offset(model)
        known == base \in DOMAIN Button2CC
    IN  IF hasCorner
        THEN IF known /\ corner \in DOMAIN c2o
             THEN [raises |-> FALSE, clip |-> FALSE,
                   ccs |-> <<Button2CC[base] + c2o[corner]>>]
             ELSE IF corner \in GenericCorners
                  THEN LET offsets == {c2o[k] : k \in {k \in DOMAIN c2o : CornerIn(corner, k)}}
                       IN  IF ~known \/ offsets = {}
                           THEN RgRaise
                           ELSE [raises |-> FALSE, clip |-> TRUE,
                                 ccs |-> [i \in 1..Cardinality(offsets) |->
                                            Button2CC[base] + Ascending(offsets)[i]]]
                  ELSE RgRaise
        ELSE IF known
             THEN [raises |-> FALSE, clip |-> TRUE,
                   ccs |-> [i \in 1..NSensors |-> Button2CC[base] + (i - 1)]]
             ELSE RgRaise

\* the cache and the creation counts
RgCache == [streams |-> rgStreams, made |-> rgMade]
MadeFor(made, cc) == IF cc \in DOMAIN made THEN made[cc] ELSE 0

\* a _midi_stream that creates a Midictl on every call
MidiStreamAlways(c, cc) ==
    [streams |-> (cc :> <<cc, MadeFor(c.made, cc) + 1>>) @@ c.streams,
     made    |-> (cc :> MadeFor(c.made, cc) + 1) @@ c.made]

\* _midi_stream(cc_num): the cached object, or a new Midictl stored in the cache
MidiStream(c, cc) ==
    IF cc \in DOMAIN c.streams
    THEN c
    ELSE [streams |-> (cc :> <<cc, MadeFor(c.made, cc) + 1>>) @@ c.streams,
          made    |-> (cc :> MadeFor(c.made, cc) + 1) @@ c.made]

\* _midi_stream called for each cc number of a list, in order
RECURSIVE MidiStreams(_, _)
MidiStreams(c, ccs) ==
    IF ccs = <<>> THEN c ELSE MidiStreams(MidiStream(c, Head(ccs)), Tail(ccs))

\* the object returned by a call: a Midictl ("stream"), a pyo.Clip of a sum
\* ("clip") or a pyo.Scale ("scale") over the Midictl objects objs; hits is
\* the number of _midi_stream calls that found their object in the cache
NoResult == [kind |-> "none", objs |-> <<>>, hits |-> 0]
ErrorResult == [kind |-> "error", objs |-> <<>>, hits |-> 0]
Result(kind, c, ccs) ==
    [kind |-> kind,
     objs |-> [i \in 1..Len(ccs) |-> c.streams[ccs[i]]],
     hits |-> Cardinality({i \in 1..Len(ccs) : ccs[i] \in DOMAIN rgStreams})]

Call(fn, base, name, hasCorner, corner) ==
    [fn |-> fn, base |-> base, name |-> name, hasCorner |-> hasCorner, corner |-> corner]
NoCallYet == Call("none", 0, "", FALSE, <<>>)

RgIdle ==
    /\ rgModel = 1 /\ rgStreams = <<>> /\ rgMade = <<>>
    /\ rgCall = NoCallYet /\ rgResult = NoResult /\ rgFailed = FALSE
    /\ rgIn = <<>> /\ rgOut = 0

RECURSIVE SumSeq(_)
SumSeq(q) == IF q = <<>> THEN 0 ELSE Head(q) + SumSeq(Tail(q))

\* a sum that is not clipped
ClipNone(x, lo, hi) == x

\* pyo.Clip(x, min, max)
Clip(x, lo, hi) == IF x < lo THEN lo ELSE IF x > hi THEN hi ELSE x

\* init(model): model 2 switches the corner table (and the defaults)
RgSelectModel(model) ==
    /\ rgModel' = IF model = 2 THEN 2 ELSE rgModel
    /\ raised' = FALSE
    /\ op' = "model"
    /\ UNCHANGED notRg
    /\ UNCHANGED <<rgStreams, rgMade, rgCall, rgResult, rgFailed, rgIn, rgOut>>

\* what a call leaves behind, given the cache c after it and its result
RgReturn(call, c, result) ==
    /\ rgCall' = call
    /\ rgStreams' = c.streams
    /\ rgMade' = c.made
    /\ rgResult' = result
    /\ raised' = (result.kind = "error")
    /\ rgFailed' = (rgFailed \/ result.kind = "error")
    /\ rgIn' = <<>>
    /\ rgOut' = 0
    /\ UNCHANGED notRg
    /\ UNCHANGED rgModel

\* button(base) for a string base: one of the nav_* buttons
RgButtonNav(name) ==
    /\ op' = "button"
    /\ IF name \in DOMAIN Nav2CC
       THEN LET c == MidiStream(RgCache, Nav2CC[name])
            IN  RgReturn(Call("button", 0, name, FALSE, <<>>), c,
                         Result("stream", c, <<Nav2CC[name]>>))
       ELSE RgReturn(Call("button", 0, name, FALSE, <<>>), RgCache, ErrorResult)

\* button(base, corner) for a numbered base; hasCorner is `corner is not None`
RgButton(base, hasCorner, corner) ==
    LET plan == ButtonPlan(rgModel, base, hasCorner, corner)
        c == MidiStreams(RgCache, plan.ccs)
        call == Call("button", base, "", hasCorner, corner)
    IN  /\ op' = "button"
        /\ IF plan.raises
           THEN RgReturn(call, RgCache, ErrorResult)
           ELSE RgReturn(call, c, Result(IF plan.clip THEN "clip" ELSE "stream", c, plan.ccs))

\* extension_pedal(calib_min, calib_max); calib is `calib_min or calib_max`
RgPedal(calib) ==
    LET c == MidiStream(RgCache, PedalCC)
    IN  /\ op' = "pedal"
        /\ RgReturn(Call("pedal", 0, "", calib, <<>>), c,
                    Result(IF calib THEN "scale" ELSE "stream", c, <<PedalCC>>))

\* one engine pass: the sensors behind the object returned by the last
\* button() call take the levels vals, and the object its value; the value
\* has no memory, so one reading per returned object is followed
RgRead(vals) ==
    /\ rgCall.fn = "button"
    /\ rgIn = <<>>
    /\ rgResult.kind \in {"stream", "clip"}
    /\ Len(vals) = Len(rgResult.objs)
    /\ rgIn' = vals
    /\ rgOut' = IF rgResult.kind = "clip"
                THEN Clip(SumSeq(vals), 0, MaxLevel)
                ELSE vals[1]
    /\ raised' = FALSE
    /\ op' = "read"
    /\ UNCHANGED notRg
    /\ UNCHANGED <<rgModel, rgStreams, rgMade, rgCall, rgResult, rgFailed>>

-----------------------------------------------------------------------------
(* LED callbacks: led_on(), led_off() and hardware.led() *)

\* hardware.GREEN, hardware.RED, hardware.OFF, hardware.ON
GREEN == 0
RED == 1
OFF == 0
ON == 1

\* the largest LED number of the device
LastLed == 10

\* the arguments of led_on and led_off that are tried
LedNums == {0, 1, 9, LastLed}

\* hardware.led(number, color, mode): the controller number it writes
LedCtl(number, color) == IF color = GREEN THEN 109 + number ELSE 19 + number

\* the controller numbers led() can write for numbers 0..10
LedCtls == {LedCtl(n, c) : n \in 0..LastLed, c \in {GREEN, RED}}

\* getattr(hardware, color.upper())
ColorNames == {"green", "red", "yellow"}
HasColor(name) == name \in {"green", "red"}
ColorOf(name) == IF name = "green" THEN GREEN ELSE RED

\* led_on: `if num == 0: num = 10`
OnNumber(num) == IF num = 0 THEN LastLed ELSE num

\* led_off: `num % 10`
OffNumber(num) == num % 10

NoLedOn == [num |-> -1, color |-> GREEN, led |-> -1]
NoLedOff == [nums |-> <<>>, leds |-> <<>>]

LdIdle ==
    /\ ldOut = [ctl \in LedCtls |-> OFF]
    /\ ldOn = NoLedOn
    /\ ldOff = NoLedOff

Lit == {ctl \in LedCtls : ldOut[ctl] # OFF}

\* led_on(num, color)(): getattr raises for a color hardware does not define
LedOn(num, color) ==
    /\ op' = "led_on"
    /\ IF HasColor(color)
       THEN LET ctl == LedCtl(OnNumber(num), ColorOf(color))
            IN  /\ (ctl \in Lit \/ Cardinality(Lit) < MaxLit)
                /\ ldOut' = [ldOut EXCEPT ![ctl] = ON]
                /\ ldOn' = [num |-> num, color |-> ColorOf(color), led |-> OnNumber(num)]
                /\ raised' = FALSE
       ELSE /\ raised' = TRUE
            /\ UNCHANGED <<ldOut, ldOn>>
    /\ UNCHANGED ldOff
    /\ UNCHANGED notLd

\* led_off(nums)(): hardware.led(num % 10, c, OFF) for c in range(2) for num in nums
LedOff(nums) ==
    /\ op' = "led_off"
    /\ ldOut' = [ctl \in LedCtls |->
                   IF \E i \in 1..Len(nums), c \in {GREEN, RED} :
                         ctl = LedCtl(OffNumber(nums[i]), c)
                   THEN OFF ELSE ldOut[ctl]]
    /\ ldOff' = [nums |-> nums, leds |-> [i \in 1..Len(nums) |-> OffNumber(nums[i])]]
    /\ raised' = FALSE
    /\ UNCHANGED ldOn
    /\ UNCHANGED notLd

\* hardware.reset_leds(): every LED 1..10 off in both colors
ResetLeds ==
    /\ op' = "reset_leds"
    /\ ldOut' = [ctl \in LedCtls |->
                   IF \E l \in 1..LastLed, c \in {GREEN, RED} : ctl = LedCtl(l, c)
                   THEN OFF ELSE ldOut[ctl]]
    /\ raised' = FALSE
    /\ UNCHANGED <<ldOn, ldOff>>
    /\ UNCHANGED notLd

-----------------------------------------------------------------------------
(* The display callback: display() and hardware.display() *)

\* a text is the sequence of its characters

\* the width of the LCD
DisplayWidth == 4

\* the controller number of the first character of the LCD
DisplayCtl == 50

Digits == <<"0", "1", "2", "3", "4", "5", "6", "7", "8", "9">>

\* ord(c) for the characters that occur
Ord == (" " :> 32) @@ (">" :> 62) @@ ("a" :> 97) @@
       [d \in {Digits[i] : i \in 1..10} |-> 47 + (CHOOSE i \in 1..10 : Digits[i] = d)]

\* str(n) for a non-negative integer
RECURSIVE Str(_)
Str(n) == IF n < 10 THEN <<Digits[n + 1]>> ELSE Str(n \div 10) \o <<Digits[(n % 10) + 1]>>

Spaces(k) == [i \in 1..k |-> " "]

\* text.ljust(w)
Ljust(text, w) == IF Len(text) >= w THEN text ELSE text \o Spaces(w - Len(text))

\* text[:k], a negative k counting from the end
SliceTo(text, k) ==
    IF k >= 0
    THEN SubSeq(text, 1, IF k < Len(text) THEN k ELSE Len(text))
    ELSE SubSeq(text, 1, Len(text) + k)

\* inner(n, text): the text handed to hardware.display
InnerText(text, arg) ==
    IF IsNone(arg)
    THEN text
    ELSE LET n == Str(Val(arg))
             l == Len(n)
         IN  SliceTo(Ljust(text, DisplayWidth - l), DisplayWidth - l) \o n

\* hardware.display(text): truncated to 4 characters, padded with spaces, one
\* ctlout per character
HwDisplay(text) ==
    LET cut == SliceTo(text, DisplayWidth)
        four == cut \o Spaces(DisplayWidth - Len(cut))
    IN  [i \in 1..Len(four) |-> <<DisplayCtl + (i - 1), Ord[four[i]]>>]

\* the labels and arguments that are tried
LabelChars == {"a", ">"}
Labels == UNION {[1..k -> LabelChars] : k \in 0..MaxLabel}
DisplayArgs == {None} \cup {Some(n) : n \in {0, 7, 45, 100, 1234, 12345}}

DpIdle == dpLabel = <<>> /\ dpArg = None /\ dpText = <<>> /\ dpSent = <<>>

\* display(text)(n): the callback made for a label, called with or without n
Display(text, arg) ==
    /\ dpLabel' = text
    /\ dpArg' = arg
    /\ dpText' = InnerText(text, arg)
    /\ dpSent' = HwDisplay(InnerText(text, arg))
    /\ raised' = FALSE
    /\ op' = "display"
    /\ UNCHANGED notDp

-----------------------------------------------------------------------------
(* Initialization: foococo.init(), hardware.init() and _find_device() *)

\* the device names that occur
DeviceNames == {"SSCOM MIDI 1", "Midi Through"}
DeviceLists == UNION {[1..k -> DeviceNames] : k \in 0..MaxDevices}

\* pyo.pm_get_input_devices() / pm_get_output_devices(): (names, indexes);
\* portmidi numbers the outputs after the inputs
InputDevices == [names |-> hwInputs, indexes |-> [i \in 1..Len(hwInputs) |-> i - 1]]
OutputDevices ==
    [names |-> hwOutputs,
     indexes |-> [i \in 1..Len(hwOutputs) |-> Len(hwInputs) + i - 1]]

\* the loop of _find_device over zip(names, indexes), from position i on:
\* the index found, None when the loop ends (RuntimeError)
RECURSIVE FindLoop(_, _, _)
FindLoop(devices, i, device_index) ==
    IF i > Len(devices.names)
    THEN None
    ELSE IF devices.names[i] = "SSCOM MIDI 1"
         THEN IF device_index - 1 = 0
              THEN Some(devices.indexes[i])
              ELSE FindLoop(devices, i + 1, device_index - 1)
         ELSE FindLoop(devices, i + 1, device_index)

\* a search that stops at the first SoftStep, whatever device_index
FindFirstDevice(devices, device_index) == FindLoop(devices, 1, 1)

\* _find_device(devices, device_index)
FindDevice(devices, device_index) == FindLoop(devices, 1, device_index)

NoMsgs == [sysex |-> 0, display |-> 0, led |-> 0]

\* what init sends once the server runs: _standalone(False) is two sysex
\* messages, display(text) one ctlout per character, reset_leds() one ctlout
\* per LED 1..10 and color
InitMsgs ==
    [sysex |-> 2, display |-> Len(HwDisplay(<<>>)), led |-> LastLed * Cardinality({GREEN, RED})]

HwIdle ==
    /\ hwInputs = <<>> /\ hwOutputs = <<>> /\ hwIndex = 1
    /\ hwIn = None /\ hwOut = None /\ hwBooted = FALSE /\ hwStarted = FALSE
    /\ hwMsgs = NoMsgs /\ hwResult = "none"

\* the MIDI devices present when init is called
HwPlug(inputs, outputs) ==
    /\ hwResult = "none"
    /\ hwInputs' = inputs
    /\ hwOutputs' = outputs
    /\ raised' = FALSE
    /\ op' = "plug"
    /\ UNCHANGED <<hwIndex, hwIn, hwOut, hwBooted, hwStarted, hwMsgs, hwResult>>
    /\ UNCHANGED <<notHw, rgVars>>

\* foococo.init(server, text, model, device_index): the model switch, then
\* hardware.init, whose RuntimeError is not caught
HwInit(model, device_index) ==
    LET in == FindDevice(InputDevices, device_index)
        out == FindDevice(OutputDevices, device_index)
    IN  /\ hwResult = "none"
        /\ hwIndex' = device_index
        /\ rgModel' = IF model = 2 THEN 2 ELSE rgModel
        /\ hwIn' = in
        /\ hwOut' = IF IsNone(in) THEN hwOut ELSE out
        /\ IF IsNone(in) \/ IsNone(out)
           THEN /\ raised' = TRUE
                /\ hwResult' = "raised"
                /\ UNCHANGED <<hwBooted, hwStarted, hwMsgs>>
           ELSE /\ raised' = FALSE
                /\ hwResult' = "ok"
                /\ hwBooted' = TRUE
                /\ hwStarted' = TRUE
                /\ hwMsgs' = InitMsgs
        /\ op' = "init"
        /\ UNCHANGED <<hwInputs, hwOutputs>>
        /\ UNCHANGED <<notHw, rgRest>>

-----------------------------------------------------------------------------
(* Pressure *)

\* pyo.Change has compared no sample yet
NoSample == -1

PzIdle ==
    /\ pzPhase = "new" /\ pzNCb = 0 /\ pzVal = 0 /\ pzLast = NoSample
    /\ pzTrig = FALSE /\ pzTrigF = FALSE /\ pzCalls = <<>> /\ pzStopped = FALSE

\* int(source.get()*100) for a source at level v
PzScaled(v) == (v * PERCENT) \div MaxLevel

\* inner(): every function of callback, in list order, with int(source.get()*100)
PzInner(v, n) == [i \in 1..n |-> <<i, PzScaled(v)>>]

\* pyo.Change on one engine pass: a trigger when the sample differs from the
\* value it holds
ChangeFires(last, v) == last # v

\* Pressure.__init__(source, callback): nothing is called
PzConstruct(ncb) ==
    /\ pzPhase = "new"
    /\ pzPhase' = "live"
    /\ pzNCb' = ncb
    /\ pzLast' = NoSample
    /\ pzTrig' = TRUE
    /\ pzTrigF' = TRUE
    /\ pzCalls' = <<>>
    /\ raised' = FALSE
    /\ op' = "construct"
    /\ UNCHANGED notPz
    /\ UNCHANGED <<pzVal, pzStopped>>

\* one engine pass: the source takes level v; a playing Change compares it and
\* a playing TrigFunc calls inner on its trigger
PzSample(v) ==
    /\ pzPhase = "live"
    /\ pzVal' = v
    /\ pzLast' = IF pzTrig /\ ChangeFires(pzLast, v) THEN v ELSE pzLast
    /\ pzCalls' = IF pzTrig /\ pzTrigF /\ ChangeFires(pzLast, v)
                  THEN PzInner(v, pzNCb) ELSE <<>>
    /\ raised' = FALSE
    /\ op' = "sample"
    /\ UNCHANGED notPz
    /\ UNCHANGED <<pzPhase, pzNCb, pzTrig, pzTrigF, pzStopped>>

\* Pressure.stop(): stops trig and trig_f
PzStop ==
    /\ pzPhase = "live"
    /\ pzTrig' = FALSE
    /\ pzTrigF' = FALSE
    /\ pzStopped' = TRUE
    /\ pzCalls' = <<>>
    /\ raised' = FALSE
    /\ op' = "stop"
    /\ UNCHANGED notPz
    /\ UNCHANGED <<pzPhase, pzNCb, pzVal, pzLast>>

\* Pressure.play(): plays trig and trig_f
PzPlay ==
    /\ pzPhase = "live"
    /\ pzTrig' = TRUE
    /\ pzTrigF' = TRUE
    /\ pzStopped' = FALSE
    /\ pzCalls' = <<>>
    /\ raised' = FALSE
    /\ op' = "play"
    /\ UNCHANGED notPz
    /\ UNCHANGED <<pzPhase, pzNCb, pzVal, pzLast>>

-----------------------------------------------------------------------------
(* One firing of a list of actions, some of which raise *)

ActionLists == UNION {[1..k -> BOOLEAN] : k \in 0..MaxActions}

\* a loop that goes on after an action raised
AbortNever(calls, raises) == calls

\* `for c in cb: c(...)`: the calls made, in order, when raises[i] tells
\* whether the i-th action raises; the exception leaves the loop
Abort(calls, raises) ==
    LET R == {i \in 1..Len(calls) : raises[i]}
    IN  IF R = {} THEN calls
        ELSE SubSeq(calls, 1, CHOOSE i \in R : \A j \in R : i <= j)

CbIdle == cbKind = "none" /\ cbActions = <<>> /\ cbArg = None /\ cbRan = <<>>

\* what a firing leaves behind
Fired(kind, actions, arg, calls) ==
    /\ cbKind' = kind
    /\ cbActions' = actions
    /\ cbArg' = arg
    /\ cbRan' = Abort(calls, actions)
    /\ raised' = (\E i \in 1..Len(actions) : actions[i])
    /\ op' = "fire"
    /\ UNCHANGED notCb

\* trig_f of a Press (kind "Press") or a Release (kind "Release") calls the
\* inner of _single_callback_or_list; an empty list gets no trig_f
FirePress(kind, actions) ==
    /\ actions # <<>>
    /\ Fired(kind, actions, None, SingleCallbackOrList(Len(actions)))

\* next()/prev() of a MultiState calls the inner of _single_callback_or_list
\* made for the current state
FireMultiState(actions) ==
    Fired("MultiState", actions, None, SingleCallbackOrList(Len(actions)))

\* trig_f of a Pressure calls inner while the source is at level v
FirePressure(actions, v) ==
    Fired("Pressure", actions, Some(v), PzInner(v, Len(actions)))

\* update() of an Expression calls changed() while the accumulator is value
FireExpression(actions, value) ==
    Fired("Expression", actions, Some(value), Changed(value, Len(actions)))

-----------------------------------------------------------------------------
(* Several Press / Release managers on one source *)

\* the managers created on the source
Sharers == {1, 2}

\* a manager before its constructor ran
NoManager ==
    [phase |-> "new", dir |-> dirDown, ncb |-> 0, trig |-> NoThresh,
     hasTrigF |-> FALSE, trigF |-> FALSE, stopped |-> FALSE, everStopped |-> FALSE,
     calls |-> <<>>]

ShIdle ==
    /\ shVal = 0
    /\ shSource = [playing |-> TRUE]
    /\ shMgr = [i \in Sharers |-> NoManager]
    /\ shActor = 0

\* a detector that all managers share: the one of the first manager
FirstTrig(mgrs, i) == mgrs[1].trig

\* the pyo.Thresh manager i listens to: the one its constructor created
OwnTrig(mgrs, i) == mgrs[i].trig

\* the other managers make no call during a step on manager i
Quiet(mgrs, i) == [j \in Sharers |-> IF j = i THEN mgrs[j] ELSE [mgrs[j] EXCEPT !.calls = <<>>]]

\* Press.__init__ for manager i, as PrConstruct; the patch is built while the
\* source is at rest
ShConstruct(i, dir, ncb) ==
    /\ shMgr[i].phase = "new"
    /\ ~Above(shVal)
    /\ shMgr' = Quiet([shMgr EXCEPT ![i] =
                        [phase |-> "live", dir |-> dir, ncb |-> ncb, trig |-> NewThresh,
                         hasTrigF |-> (ncb > 0), trigF |-> (ncb > 0),
                         stopped |-> FALSE, everStopped |-> FALSE, calls |-> <<>>]], i)
    /\ shActor' = i
    /\ raised' = FALSE
    /\ op' = "construct"
    /\ UNCHANGED <<shVal, shSource>>
    /\ UNCHANGED notSh

\* One engine pass: the source takes level v; every manager's trig, then trig_f
ShSample(v) ==
    /\ \E i \in Sharers : shMgr[i].phase = "live"
    /\ shSource.playing
    /\ shVal' = v
    /\ shMgr' = [i \in Sharers |->
                   IF shMgr[i].phase = "live"
                   THEN [shMgr[i] EXCEPT
                           !.trig = ThreshPass(shMgr[i].trig, shMgr[i].dir, v),
                           !.calls = IF Triggers(OwnTrig(shMgr, i), shMgr[i].trigF,
                                                 shMgr[i].dir, v)
                                     THEN SingleCallbackOrList(shMgr[i].ncb) ELSE <<>>]
                   ELSE shMgr[i]]
    /\ shActor' = 0
    /\ raised' = FALSE
    /\ op' = "sample"
    /\ UNCHANGED shSource
    /\ UNCHANGED notSh

\* Press.stop on manager i, as PrStop
ShStop(i) ==
    /\ shMgr[i].phase = "live"
    /\ shMgr' = Quiet([shMgr EXCEPT ![i].trig.active = FALSE, ![i].trigF = FALSE,
                                    ![i].stopped = TRUE, ![i].everStopped = TRUE,
                                    ![i].calls = <<>>], i)
    /\ shActor' = i
    /\ raised' = ~shMgr[i].hasTrigF
    /\ op' = "stop"
    /\ UNCHANGED <<shVal, shSource>>
    /\ UNCHANGED notSh

\* Press.play on manager i, as PrPlay
ShPlay(i) ==
    /\ shMgr[i].phase = "live"
    /\ shMgr' = Quiet([shMgr EXCEPT ![i].trig.active = TRUE, ![i].trigF = shMgr[i].hasTrigF,
                                    ![i].stopped = FALSE, ![i].calls = <<>>], i)
    /\ shActor' = i
    /\ raised' = ~shMgr[i].hasTrigF
    /\ op' = "play"
    /\ UNCHANGED <<shVal, shSource>>
    /\ UNCHANGED notSh

-----------------------------------------------------------------------------
(* The specifications: one manager is exercised, the others stay idle *)

Idle == op = "none" /\ raised = FALSE /\ MSIdle /\ ExIdle /\ PrIdle /\ PzIdle /\ RgIdle /\ LdIdle
        /\ DpIdle /\ HwIdle /\ CbIdle /\ ShIdle

InitMS == Idle

NextMS ==
    \/ \E L \in 0..MaxLength, init \in InitArgs, hasPrev \in BOOLEAN :
          MSConstruct(L, init, hasPrev)
    \/ \E nv \in Levels, pv \in Levels : MSSample(nv, pv)
    \/ MSStop
    \/ MSPlay

SpecMS == InitMS /\ [][NextMS]_vars

InitExpr == Idle

NextExpr ==
    \/ \E c \in ExConfigs : ExConstruct(c.init, c.curve, c.ncb)
    \/ \E u \in Levels, d \in Levels : ExSample(u, d)
    \/ ExTick
    \/ ExStop
    \/ ExPlay

SpecExpr == InitExpr /\ [][NextExpr]_vars

InitPress == Idle

NextPress ==
    \/ \E dir \in {dirDown, dirUp, dirBoth}, ncb \in 0..MaxCallbacks : PrConstruct(dir, ncb)
    \/ \E v \in Levels : PrSample(v)
    \/ PrStop
    \/ PrPlay

SpecPress == InitPress /\ [][NextPress]_vars

InitPressure == Idle

NextPressure ==
    \/ \E ncb \in 0..MaxCallbacks : PzConstruct(ncb)
    \/ \E v \in Levels : PzSample(v)
    \/ PzStop
    \/ PzPlay

SpecPressure == InitPressure /\ [][NextPressure]_vars

InitSources == Idle

NextSources ==
    \/ \E model \in {1, 2} : RgSelectModel(model)
    \/ \E name \in RgNavs : RgButtonNav(name)
    \/ \E base \in RgButtons, corner \in RgCorners : RgButton(base, TRUE, corner)
    \/ \E base \in RgButtons : RgButton(base, FALSE, <<>>)
    \/ \E calib \in BOOLEAN : RgPedal(calib)
    \/ \E vals \in [1..Len(rgResult.objs) -> Levels] : RgRead(vals)

SpecSources == InitSources /\ [][NextSources]_vars

InitLeds == Idle

NextLeds ==
    \/ \E num \in LedNums, color \in ColorNames : LedOn(num, color)
    \/ \E num \in LedNums : LedOff(<<num>>)
    \/ \E num \in LedNums, other \in LedNums : LedOff(<<num, other>>)
    \/ ResetLeds

SpecLeds == InitLeds /\ [][NextLeds]_vars

InitDisplay == Idle

NextDisplay == \E text \in Labels, arg \in DisplayArgs : Display(text, arg)

SpecDisplay == InitDisplay /\ [][NextDisplay]_vars

InitInit == Idle

NextInit ==
    \/ \E inputs \in DeviceLists, outputs \in DeviceLists : HwPlug(inputs, outputs)
    \/ \E model \in {1, 2}, device_index \in 0..MaxDevices : HwInit(model, device_index)

SpecInit == InitInit /\ [][NextInit]_vars

InitDispatch == Idle

NextDispatch ==
    \/ \E kind \in {"Press", "Release"}, actions \in ActionLists : FirePress(kind, actions)
    \/ \E actions \in ActionLists : FireMultiState(actions)
    \/ \E actions \in ActionLists, v \in Levels : FirePressure(actions, v)
    \/ \E actions \in ActionLists, value \in {0, Unit \div 2, Unit} :
          FireExpression(actions, value)

SpecDispatch == InitDispatch /\ [][NextDispatch]_vars

InitShared == Idle

NextShared ==
    \/ \E i \in Sharers, dir \in {dirDown, dirUp, dirBoth}, ncb \in 0..MaxCallbacks :
          ShConstruct(i, dir, ncb)
    \/ \E v \in Levels : ShSample(v)
    \/ \E i \in Sharers : ShStop(i)
    \/ \E i \in Sharers : ShPlay(i)

SpecShared == InitShared /\ [][NextShared]_vars

-----------------------------------------------------------------------------
(* Claims about MultiState, checked under SpecMS *)

MSLive == msPhase = "live" /\ msLength >= 1
MSIntInit == ~IsNone(msInit)
NextFired == nNext' = nNext + 1
PrevFired == nPrev' = nPrev + 1

\* the two parts of C1: the index reached, and one advance
C1_Index ==
    (MSLive /\ msInit = Some(0) /\ ~msHasPrev) =>
        /\ msState = Some(nNext % msLength)
        /\ (op = "construct" => msCalls = <<0>>)
C1_Step ==
    (MSLive /\ msInit = Some(0) /\ ~msHasPrev /\ NextFired) =>
        /\ msState' = Some((Val(msState) + 1) % msLength)
        /\ msCalls' = <<Val(msState')>>

\* C1: a MultiState with L >= 1 states, initial index 0 and no prev button has
\* executed state 0 at construction and is at index (k mod L) after k
\* invocations of the next trigger; each of them sets index = (index + 1) mod L
\* and executes exactly the state of the new index.
C1_AdvanceWraps == []C1_Index /\ [][C1_Step]_vars

\* C1 witness: three crossings on [A, B, C] are back on A
C1_Witness ==
    /\ MSLive /\ msInit = Some(0) /\ ~msHasPrev /\ msLength = 3
    /\ op = "sample" /\ nNext = 3 /\ msState = Some(0) /\ msCalls = <<0>>

\* the two parts of C2: the index reached, and one retreat
C2_Index ==
    (MSLive /\ MSIntInit /\ msHasPrev) =>
        /\ msState = Some((Val(msInit) + nNext - nPrev) % msLength)
        /\ Val(msState) \in 0..(msLength - 1)
C2_Step ==
    (MSLive /\ MSIntInit /\ msHasPrev /\ PrevFired /\ ~NextFired) =>
        /\ msState' = Some(IF Val(msState) = 0 THEN msLength - 1 ELSE Val(msState) - 1)
        /\ msCalls' = <<Val(msState')>>

\* C2: with a prev button, each invocation of the prev trigger sets
\* index = (index - 1) mod L, a value of 0..L-1, and executes that state; from
\* index 0 it lands on L-1; and after any interleaving of next and prev
\* crossings the index is (init + #next - #prev) mod L.
C2_RetreatWraps == []C2_Index /\ [][C2_Step]_vars

\* C2 witness: one prev crossing from A on [A, B, C] executes C
C2_Witness ==
    /\ MSLive /\ msInit = Some(0) /\ msHasPrev /\ msLength = 3
    /\ op = "sample" /\ nPrev = 1 /\ nNext = 0 /\ msState = Some(2) /\ msCalls = <<2>>

\* C3: constructing a MultiState with init = i, 0 <= i < L, executes state i
\* once and no other state, during construction, before any crossing or play().
C3_InitialStateOnce ==
    (op = "construct" /\ MSLive /\ MSIntInit /\ Val(msInit) \in 0..(msLength - 1)) =>
        /\ msCalls = <<Val(msInit)>>
        /\ msState = msInit
        /\ nNext = 0 /\ nPrev = 0 /\ ~raised

\* C3 witness: init = 2 on three states executes the third state only
C3_Witness ==
    op = "construct" /\ MSLive /\ msLength = 3 /\ msInit = Some(2) /\ msCalls = <<2>>

\* the two parts of C4 as claimed: the range, and the writers of the index
C4_InRange == MSLive => (~IsNone(msState) /\ Val(msState) \in 0..(msLength - 1))
C4_OnlyTriggers ==
    (MSLive /\ msState' # msState) => (op' = "sample" /\ (NextFired \/ PrevFired))

\* C4 as claimed: for every accepted init argument the index is an integer of
\* 0..L-1 in every state after construction, and only the next/prev trigger
\* callbacks change it.
C4_IndexAlwaysInRange == []C4_InRange /\ [][C4_OnlyTriggers]_vars

\* the two parts of C4 as amended
C4_InRangeOrUnset ==
    MSLive => /\ IsNone(msState) => (IsNone(msInit) /\ op # "play")
              /\ ~IsNone(msState) => Val(msState) \in 0..(msLength - 1)
C4_OnlyTriggersOrFirstPlay ==
    (MSLive /\ msState' # msState) =>
        \/ op' = "sample" /\ (NextFired \/ PrevFired)
        \/ op' = "play" /\ IsNone(msState) /\ msState' = Some(0)

\* C4 amended: the index is None only for a MultiState built with init=None,
\* until its first play(); otherwise it is an integer of 0..L-1.  It is changed
\* only by the next/prev trigger callbacks and by that first play(), which
\* sets it to 0.
C4_IndexInRangeOnceSet == []C4_InRangeOrUnset /\ [][C4_OnlyTriggersOrFirstPlay]_vars

\* C4 witness: a prev crossing from index 0 after a deferred start
C4_Witness ==
    /\ MSLive /\ IsNone(msInit) /\ msHasPrev /\ msLength = 3
    /\ op = "sample" /\ nPrev = 1 /\ msState = Some(2)

\* one stop() or play() step, as claimed by C10
C10_Frame ==
    (msPhase = "live" /\ op' \in {"stop", "play"}) =>
        (msState' = msState /\ msCalls' = <<>>)

\* C10 as claimed: stop() and play() leave the index unchanged and execute no
\* state.
C10_StopPlayFrame == [][C10_Frame]_vars

\* one stop() or play() step, as amended
C10_FrameSet ==
    /\ (msPhase = "live" /\ op' = "stop") => (msState' = msState /\ msCalls' = <<>>)
    /\ (msPhase = "live" /\ op' = "play" /\ ~IsNone(msState)) =>
           (msState' = msState /\ msCalls' = <<>>)
    /\ (MSLive /\ op' = "play" /\ IsNone(msState)) =>
           (msState' = Some(0) /\ msCalls' = <<0>>)

\* C10 amended: stop() leaves the index unchanged and executes no state, and
\* so does play() whenever the index is set (always, for an integer init);
\* only the first play() of a MultiState built with init=None sets the index
\* to 0 and executes state 0 once.
C10_StopPlayFrameOnceSet == [][C10_FrameSet]_vars

\* C10 witness: after a stop() and a play(), the second crossing executes state 2
C10_Witness ==
    /\ MSLive /\ msInit = Some(0) /\ msLength = 3 /\ msResumed
    /\ op = "sample" /\ nNext = 2 /\ nPrev = 0 /\ msState = Some(2) /\ msCalls = <<2>>

\* C18: constructing a MultiState with an empty list of states raises during
\* construction, whatever the other arguments, so that no MultiState with
\* length 0 exists and no crossing reaches a modulo by zero.
C18_EmptyStatesRaise ==
    /\ (op = "construct" /\ msLength = 0) => raised
    /\ msPhase = "live" => msLength >= 1

-----------------------------------------------------------------------------
(* Claims about Expression, checked under SpecExpr *)

ExLive == exPhase = "live"
ExInRange(v) == v \in 0..Unit

\* C5 as claimed: for any initial value, any sensor values and any ticks,
\* stop() and play(), the accumulator lies in [0, V_max] in every reachable state.
C5_AccumulatorInRange == ExLive => ExInRange(exValue)

\* C5 amended: the accumulator lies in [0, V_max] in every reachable state
\* unless it still holds an out-of-range init argument, which is stored as
\* given and clamped by the first integration tick; after every tick it is in
\* range, and every value handed to the callbacks is int(100 * accumulator)
\* of an accumulator inside the range, hence in 0..100.
C5_AccumulatorInRangeOrInit ==
    ExLive =>
        /\ ExInRange(exValue) \/ exValue = exInit
        /\ op = "tick" => ExInRange(exValue)
        /\ \A k \in 1..Len(exCalls) :
              /\ ExInRange(exValue)
              /\ exCalls[k][2] = (exValue * PERCENT) \div Unit
              /\ exCalls[k][2] \in 0..PERCENT

\* C5 witness: up and down both saturated, and an init of 2 clamped to 1 by a tick
C5_Witness ==
    /\ ExLive /\ op = "tick" /\ exUp = MaxLevel /\ exDown = MaxLevel
    /\ exInit = 2 * Unit /\ exValue = Unit /\ exCalls = <<<<1, PERCENT>>>>

\* C6: from stop() to the next play() no callback of the manager is invoked,
\* also when the integration timer was running at stop().
C6_NoDeliveryWhileStopped == (ExLive /\ exStopped) => exCalls = <<>>

\* C8: the integration timer runs only while up + down is above the
\* threshold, and no integration tick happens while the sum is below it, under
\* any interleaving of sensor changes, ticks, stop() and play().
C8_TimerOnlyWhileActive ==
    ExLive => /\ exMetro => Above(exUp + exDown)
              /\ op = "tick" => ~Below(exUp + exDown)

\* C9: every integration tick invokes every callback once, in list order, with
\* int(100 * accumulator) of the accumulator after the clamp of that tick,
\* whether or not the accumulator changed; no other step invokes a callback.
C9_NotifyEachTick ==
    ExLive =>
        /\ op = "tick" =>
              /\ Len(exCalls) = exNCb
              /\ \A k \in 1..exNCb :
                    exCalls[k] = <<k, (exValue * PERCENT) \div Unit>>
              /\ ExInRange(exValue)
        /\ op # "tick" => exCalls = <<>>

\* C9 witness: a tick with up = down and the accumulator pinned at its upper
\* bound still calls both callbacks
C9_Witness ==
    /\ ExLive /\ op = "tick" /\ exNCb = 2 /\ exUp = exDown /\ exUp = MaxLevel
    /\ exValue = Unit /\ exCalls = <<<<1, PERCENT>>, <<2, PERCENT>>>>

-----------------------------------------------------------------------------
(* Claims about Press, checked under SpecPress *)

\* C7: stop() and play() complete without raising on any manager, also twice
\* in a row, on a manager never played, and on a Press or Release created
\* with no callback.
C7_StopPlayNeverRaise == (prPhase = "live" /\ op \in {"stop", "play"}) => ~raised

\* an upward crossing of the threshold from level a to level b, and a downward one
CrossUp(a, b) == ~Above(a) /\ Above(b)
CrossDown(a, b) == ~Below(a) /\ Below(b)
Crossing(dir, a, b) ==
    CASE dir = dirDown -> CrossUp(a, b)
      [] dir = dirUp   -> CrossDown(a, b)
      [] OTHER         -> CrossUp(a, b) \/ CrossDown(a, b)

\* one engine pass of a Press that was never stopped: the callback is called
\* exactly when the source crosses the threshold in the direction of the Press
C11_Step ==
    (prPhase = "live" /\ prNCb > 0 /\ ~prEverStopped /\ op' = "sample") =>
        ((prCalls' # <<>>) <=> Crossing(prDir, prVal, prVal'))

\* C11: a Press with dir 'down' calls its callback once per upward crossing of
\* the threshold and never otherwise, a Release (dir 'up') once per downward
\* crossing and never otherwise, a 'both' detector once per crossing of either
\* kind; a value that stays on one side of the threshold never fires.
C11_FiresOnCrossingsOnly == [][C11_Step]_vars

\* sign(d) * |d|^curve for d = (up - down) / MaxLevel, in accumulator units
SignPow(up, down, curve) ==
    LET a == IF up >= down THEN up - down ELSE down - up
        p == Pow(a, curve) * Pow(MaxLevel, UnitExp - curve)
    IN  IF up >= down THEN p ELSE -p

\* one integration tick adds the sign-preserving power and moves the
\* accumulator in the direction of up - down
TickFollowsSign ==
    /\ exValue' = Clamp(exValue + SignPow(exUp, exDown, exCurve))
    /\ exUp >= exDown => exValue' >= exValue
    /\ exUp <= exDown => exValue' <= exValue

C22_Step == op' = "tick" => TickFollowsSign

\* C22 as stated: on every integration tick, for the default curve and for
\* every positive integer curve, the amount added before clamping is
\* sign(d) * |d|^curve, so the accumulator never decreases when up >= down,
\* never increases when up <= down and is unchanged when they are equal.
C22_IncrementKeepsSign == [][C22_Step]_vars

C22_OddStep ==
    (op' = "tick" /\ exCurve % 2 = 1 /\ ExInRange(exValue)) => TickFollowsSign

\* C22: the same for the default curve and every odd positive integer curve,
\* on a tick that starts with the accumulator in [0, 1].
C22_IncrementKeepsSignWhenOdd == [][C22_OddStep]_vars

\* a tick of an Expression with curve 3 that lowered the accumulator short of 0
C22_Witness ==
    /\ op = "tick" /\ exCurve = 3 /\ exUp < exDown
    /\ exValue > 0 /\ exValue < Unit

-----------------------------------------------------------------------------
(* Claims about Pressure, checked under SpecPressure *)

\* the sample before this one: the value Change holds, the value of the source
\* at construction before the first pass
PzPrevious == IF pzLast = NoSample THEN pzVal ELSE pzLast

C12_Step ==
    /\ op' = "construct" => pzCalls' = <<>>
    /\ (pzPhase = "live" /\ ~pzStopped /\ op' = "sample") =>
          pzCalls' = IF pzVal' # PzPrevious
                     THEN [i \in 1..pzNCb |-> <<i, PzScaled(pzVal')>>]
                     ELSE <<>>

\* C12: a Pressure calls nothing at construction, nothing on an engine pass
\* whose sample equals the previous one, and on a pass whose sample differs
\* from the previous one calls each function of its list exactly once, in
\* order, with the sample scaled to an integer percentage.
C12_NotifyOnChangeOnly == [][C12_Step]_vars

-----------------------------------------------------------------------------
(* Claims about value sources, checked under SpecSources *)

C13_State ==
    /\ DOMAIN rgMade = DOMAIN rgStreams
    /\ \A cc \in DOMAIN rgMade : rgMade[cc] <= 1
    /\ \A i \in 1..Len(rgResult.objs) :
          LET o == rgResult.objs[i]
          IN  o[1] \in DOMAIN rgStreams /\ rgStreams[o[1]] = o

C13_Step ==
    \A cc \in DOMAIN rgStreams : cc \in DOMAIN rgStreams' /\ rgStreams'[cc] = rgStreams[cc]

\* C13: after any sequence of button() and extension_pedal() calls at most one
\* Midictl object was ever created per cc number, the object a call reaches
\* for a cc number is the one the cache holds, and a cached object is never
\* replaced: two calls that reach the same cc number get the identical object.
C13_OneSourcePerChannel == []C13_State /\ [][C13_Step]_vars

\* a combined button whose sensors were all found in the cache
C13_Witness ==
    /\ rgResult.kind = "clip"
    /\ rgResult.hits = Len(rgResult.objs)
    /\ PedalCC \in DOMAIN rgStreams

\* the corner tags the current device generation accepts
ValidCorner(corner) == corner \in DOMAIN Corner2Offset(rgModel) \/ corner \in GenericCorners
ValidCall ==
    \/ rgCall.fn = "pedal"
    \/ rgCall.fn = "button" /\ rgCall.name \in DOMAIN Nav2CC
    \/ /\ rgCall.fn = "button" /\ rgCall.name = ""
       /\ rgCall.base \in DOMAIN Button2CC
       /\ rgCall.hasCorner => ValidCorner(rgCall.corner)
InvalidCornerCall ==
    /\ rgCall.fn = "button" /\ rgCall.name = "" /\ rgCall.hasCorner
    /\ ~ValidCorner(rgCall.corner)

C14_State ==
    /\ (op = "button" /\ InvalidCornerCall) => (raised /\ rgResult.kind = "error")
    /\ (op \in {"button", "pedal"} /\ ValidCall) => (~raised /\ rgResult.kind # "error")

C14_Step ==
    (op' = "button" /\ raised') => (rgStreams' = rgStreams /\ rgMade' = rgMade)

\* C14: button(base, corner) with a corner tag that is neither in the corner
\* table of the device generation nor one of t, l, b, r raises; a call that
\* raises creates no Midictl and leaves the cache as it was; every call with
\* valid arguments succeeds, whatever calls raised before it.
C14_InvalidCornerLocal == []C14_State /\ [][C14_Step]_vars

\* a generic corner resolved after an invalid corner was refused with a
\* non-empty cache
C14_Witness ==
    /\ rgFailed /\ ~raised /\ op = "button"
    /\ rgCall.hasCorner /\ rgResult.kind = "clip" /\ rgResult.hits > 0

Min(a, b) == IF a <= b THEN a ELSE b

\* a numbered button without corner, or with one of t, l, b, r that the
\* corner table of the device generation does not hold
CombinedCall ==
    /\ rgCall.fn = "button" /\ rgCall.name = "" /\ rgCall.base \in DOMAIN Button2CC
    /\ \/ ~rgCall.hasCorner
       \/ rgCall.corner \in GenericCorners \ DOMAIN Corner2Offset(rgModel)

\* C15: the object button() returns for a numbered button without corner, or
\* for a generic corner made of several sensors, is the clipped sum of its
\* constituents: its value is min(V_max, sum of the constituent values) and
\* lies in [0, V_max], whatever the constituent values.
C15_SaturatingSum ==
    /\ (op = "button" /\ CombinedCall) =>
          (rgResult.kind = "clip" /\ Len(rgResult.objs) > 1)
    /\ (op = "read" /\ CombinedCall) =>
          /\ Len(rgIn) = Len(rgResult.objs)
          /\ rgOut = Min(MaxLevel, SumSeq(rgIn))
          /\ rgOut \in 0..MaxLevel

\* a generic corner whose sensors sum to more than V_max
C15_Witness ==
    /\ op = "read" /\ CombinedCall /\ rgCall.hasCorner
    /\ SumSeq(rgIn) > MaxLevel /\ rgOut = MaxLevel

\* the sensors a generic letter stands for on generation 1, as offsets from
\* the first cc number of the button: t = tl+tr, b = bl+br, l = tl+bl, r = tr+br
GenericOffsets ==
    (<<"t">> :> {0, 1}) @@ (<<"b">> :> {2, 3}) @@ (<<"l">> :> {0, 2}) @@ (<<"r">> :> {1, 3})

\* the offsets button(base, corner) must resolve, {} when it must raise
ExpectedOffsets(model, hasCorner, corner) ==
    IF ~hasCorner THEN {0, 1, 2, 3}
    ELSE IF corner \in DOMAIN Corner2Offset(model) THEN {Corner2Offset(model)[corner]}
    ELSE IF corner \in GenericCorners THEN GenericOffsets[corner]
    ELSE {}

\* the cc numbers of a sequence, as a set
Range(q) == {q[i] : i \in 1..Len(q)}

\* ButtonPlan agrees with ExpectedOffsets for every numbered button
PlanAsExpected ==
    \A base \in DOMAIN Button2CC, hasCorner \in BOOLEAN, corner \in RgCorners :
        LET plan == ButtonPlan(rgModel, base, hasCorner, corner)
            offs == ExpectedOffsets(rgModel, hasCorner, corner)
        IN  /\ plan.raises = (offs = {})
            /\ Range(plan.ccs) = {Button2CC[base] + o : o \in offs}
            /\ Len(plan.ccs) = Cardinality(offs)
            /\ plan.clip = (Cardinality(offs) > 1)

\* the object the last call returned is made of the expected cached objects
ResultAsExpected ==
    LET chans == IF rgCall.name # ""
                 THEN {Nav2CC[rgCall.name]}
                 ELSE {Button2CC[rgCall.base] + o :
                          o \in ExpectedOffsets(rgModel, rgCall.hasCorner, rgCall.corner)}
    IN  /\ {rgResult.objs[i][1] : i \in 1..Len(rgResult.objs)} = chans
        /\ Len(rgResult.objs) = Cardinality(chans)
        /\ rgResult.kind = IF Cardinality(chans) > 1 THEN "clip" ELSE "stream"
        /\ \A i \in 1..Len(rgResult.objs) :
              LET o == rgResult.objs[i]
              IN  o[1] \in DOMAIN rgStreams /\ rgStreams[o[1]] = o

\* C23: for every numbered button and the device generation in force, a
\* native corner tag resolves to the single cc number base + offset(tag); a
\* letter of t, l, b, r that is not native resolves to the clipped sum of the
\* sensors whose tag contains it (t = tl+tr, b = bl+br, l = tl+bl, r = tr+br);
\* no corner resolves to the four cc numbers base..base+3; a nav key resolves
\* to its single cc number; every object reached is the one the cache holds.
C23_CornerResolution ==
    /\ op \in {"none", "model"} => PlanAsExpected
    /\ (op = "button" /\ ~raised) => ResultAsExpected

\* the left side of button 1 on generation 1: cc 44 (tl) and cc 46 (bl)
C23_Witness ==
    /\ op = "button" /\ ~raised /\ rgModel = 1
    /\ rgCall.base = 1 /\ rgCall.hasCorner /\ rgCall.corner = <<"l">>
    /\ rgResult.kind = "clip"
    /\ {rgResult.objs[i][1] : i \in 1..Len(rgResult.objs)} = {44, 46}

-----------------------------------------------------------------------------
(* Claims about the LED callbacks, checked under SpecLeds *)

C16_Step ==
    (op = "led_on" /\ ~raised /\ op' = "led_off" /\ ldOff'.nums = <<ldOn.num>>) =>
        /\ ldOff'.leds = <<ldOn.led>>
        /\ \A c \in {GREEN, RED} : ldOut'[LedCtl(ldOn.led, c)] = OFF

\* C16: for every n in 0..10 and every color, when the led_on(n, color)
\* callback ran and the led_off(n) callback runs next, led_off addresses the
\* LED number led_on addressed, and that LED is off in every color.
C16_OffAfterOn == [][C16_Step]_vars

-----------------------------------------------------------------------------
(* Claims about the display callback, checked under SpecDisplay *)

\* the label left-justified and truncated to exactly w characters
PadTrunc(text, w) == [i \in 1..w |-> IF i <= Len(text) THEN text[i] ELSE " "]

\* C17: called with a non-negative integer n, the display callback produces a
\* text of exactly 4 characters, also when str(n) is wider than the display;
\* when str(n) fits, the text is the label left-justified and truncated to
\* 4 - len(str(n)) characters followed by str(n); and hardware.display sends
\* exactly 4 characters on every call, with or without an argument.
C17_FourCharacters ==
    op = "display" =>
        /\ Len(dpSent) = DisplayWidth
        /\ ~IsNone(dpArg) =>
              LET n == Str(Val(dpArg))
              IN  /\ Len(dpText) = DisplayWidth
                  /\ Len(n) <= DisplayWidth =>
                        dpText = PadTrunc(dpLabel, DisplayWidth - Len(n)) \o n

-----------------------------------------------------------------------------
(* Claims about initialization, checked under SpecInit *)

\* the positions of the SoftSteps in a list of device names
SoftSteps(names) == {i \in 1..Len(names) : names[i] = "SSCOM MIDI 1"}

\* the position of the k-th SoftStep
Kth(names, k) ==
    CHOOSE i \in SoftSteps(names) : Cardinality({j \in SoftSteps(names) : j <= i}) = k

\* C19: init selects, for input and for output, the device_index-th device
\* named 'SSCOM MIDI 1' in list order; when fewer than device_index such
\* devices exist for input or for output, init raises, the error is not
\* caught by foococo.init, the server is neither booted nor started and no
\* sysex, LED or display message is sent.
C19_DeviceNotFoundFatal ==
    op = "init" =>
        LET nIn == Cardinality(SoftSteps(hwInputs))
            nOut == Cardinality(SoftSteps(hwOutputs))
        IN  /\ (hwIndex >= 1 /\ nIn >= hwIndex /\ nOut >= hwIndex) =>
                  /\ hwResult = "ok" /\ ~raised /\ hwBooted /\ hwStarted
                  /\ hwIn = Some(InputDevices.indexes[Kth(hwInputs, hwIndex)])
                  /\ hwOut = Some(OutputDevices.indexes[Kth(hwOutputs, hwIndex)])
            /\ (nIn < hwIndex \/ nOut < hwIndex) =>
                  /\ hwResult = "raised" /\ raised
                  /\ ~hwBooted /\ ~hwStarted /\ hwMsgs = NoMsgs

\* the second SoftStep asked for, two on the input side, one on the output side
C19_Witness ==
    /\ op = "init" /\ raised /\ hwIndex = 2
    /\ Cardinality(SoftSteps(hwInputs)) >= 2
    /\ Cardinality(SoftSteps(hwOutputs)) = 1
    /\ ~hwBooted /\ hwMsgs = NoMsgs

-----------------------------------------------------------------------------
(* Claims about callback lists, checked under SpecDispatch *)

\* the number of actions a firing must call: all of them, or those up to and
\* including the first that raises
MustRun ==
    IF \E i \in 1..Len(cbActions) : cbActions[i]
    THEN CHOOSE i \in 1..Len(cbActions) :
            cbActions[i] /\ \A j \in 1..(i - 1) : ~cbActions[j]
    ELSE Len(cbActions)

\* what the i-th action is called with
CalledWith(i) ==
    CASE cbKind = "Pressure"   -> <<i, PzScaled(Val(cbArg))>>
      [] cbKind = "Expression" -> <<i, Scaled(Val(cbArg))>>
      [] OTHER                 -> i

\* C20: one firing of a list of actions calls the actions in list order, each
\* exactly once, up to the end of the list or up to the first action that
\* raises, whose exception ends the firing; the same holds for Press, Release,
\* Pressure, Expression and the states of a MultiState.
C20_ListOrder ==
    op = "fire" =>
        /\ cbRan = [i \in 1..MustRun |-> CalledWith(i)]
        /\ raised = (\E i \in 1..Len(cbActions) : cbActions[i])

\* an Expression whose second action of three raises
C20_Witness ==
    /\ op = "fire" /\ cbKind = "Expression" /\ raised
    /\ cbActions = <<FALSE, TRUE, FALSE>> /\ Len(cbRan) = 2

-----------------------------------------------------------------------------
(* Claims about managers on a shared source, checked under SpecShared *)

\* manager i is playing and was never stopped
Undisturbed(i) ==
    /\ shMgr[i].phase = "live" /\ shMgr[i].ncb > 0
    /\ ~shMgr[i].everStopped

C21_Step ==
    \A i \in Sharers :
        \* a call on another manager leaves manager i as it was
        /\ (op' \in {"construct", "stop", "play"} /\ shActor' # i) =>
              shMgr'[i] = [shMgr[i] EXCEPT !.calls = <<>>]
        \* an undisturbed manager fires on each of its crossings, whatever
        \* was done to the others, and calls each function once
        /\ (op' = "sample" /\ Undisturbed(i) /\ Crossing(shMgr[i].dir, shVal, shVal')) =>
              shMgr'[i].calls = [k \in 1..shMgr[i].ncb |-> k]
        \* at most one firing per engine pass
        /\ op' = "sample" => Len(shMgr'[i].calls) <= shMgr[i].ncb

=============================================================================
